---- MODULE Spec2Model ----
(***************************************************************************)
(* A model of the extraction cascade of bibtexter (src/src/main.rs):       *)
(* fetch_and_generate_bibtex and its helpers extract_metadata,             *)
(* extract_from_schema, select_text and generate_citation_key.             *)
(*                                                                         *)
(* A string is a sequence of characters, each character a one-character    *)
(* TLA+ string.  Option<T> is a sequence of length at most one: <<>> is    *)
(* None and <<x>> is Some(x).  The variables are the locals of one call of *)
(* fetch_and_generate_bibtex; pc is its position.  A local that goes out   *)
(* of scope is reset to its initial value.  The responses and the fetched  *)
(* page are inputs: each step draws the part it reads (a status, a body,   *)
(* the next script element, the elements its selectors match) when it      *)
(* reads it.                                                               *)
(***************************************************************************)
EXTENDS Integers, Sequences, FiniteSets, TLC

VARIABLES
    pc,             \* position of the call
    url_str,        \* the argument url_str
    sent,           \* the GET requests issued so far, in order
    res,            \* the response in scope: status and body text
    calls,          \* the extraction strategies entered so far, in order
    scripts,        \* extract_from_schema's argument, when it is called on its own
    scanned,        \* number of JSON-LD script elements the scan has consumed
    element,        \* the JSON-LD script element the scan looks at
    tags,           \* the elements the meta-tag selectors of this step matched
    schema,         \* Option: the value extract_from_schema returned
    title, author, year,    \* the triple extract_metadata builds
    citation_key,   \* generate_citation_key's result
    outcome         \* how the call ended

vars == <<pc, url_str, sent, res, calls, scripts, scripts, scanned, element, tags, schema,
          title, author, year, citation_key, outcome>>

-----------------------------------------------------------------------------
(* Bounds of the model. *)

MaxBodyLen == 2     \* characters in a DOI registry response body
MaxDateLen == 5     \* characters in a datePublished / published_time string
MaxBlocks == 2      \* JSON-LD script elements in a page
MaxMetaLen == 2     \* characters in a title / author meta value
MaxAuthorLen == 3   \* characters in generate_citation_key's author argument
MaxTitleLen == 2    \* characters in generate_citation_key's title argument

(* The length of the year slice, s[..4]. *)
YearLen == 4

-----------------------------------------------------------------------------
(* Characters and strings. *)

(* char::is_whitespace *)
IsWhitespace(c) == c \in {" ", "\t"}

(* char::is_alphanumeric; U+00E9 is a letter. *)
IsAlphanumeric(c) ==
    c \in {"a", "b", "d", "n", "H", "J", "K", "T", "0", "2", "4", "é",
           "U", "k", "o", "w", "N", "D", "i", "t", "l", "e"}

(* char::len_utf8 for the characters of the model: U+00E9 takes two bytes. *)
len_utf8(c) == IF c = "é" THEN 2 ELSE 1

(* All strings over chars of at most n characters. *)
Strs(chars, n) == UNION {[1..k -> chars] : k \in 0..n}

(* str::len, the length in bytes. *)
RECURSIVE ByteLen(_)
ByteLen(s) == IF s = <<>> THEN 0 ELSE len_utf8(Head(s)) + ByteLen(Tail(s))

(* str::is_char_boundary *)
is_char_boundary(s, n) ==
    \E k \in 0..Len(s) : ByteLen(SubSeq(s, 1, k)) = n

(* s[..n] on a char boundary: the characters that fill the first n bytes. *)
SliceTo(s, n) ==
    LET k == CHOOSE k \in 0..Len(s) : ByteLen(SubSeq(s, 1, k)) = n
    IN  SubSeq(s, 1, k)

(* str::trim_start *)
RECURSIVE trim_start(_)
trim_start(s) ==
    IF s # <<>> /\ IsWhitespace(Head(s)) THEN trim_start(Tail(s)) ELSE s

(* str::trim_end *)
RECURSIVE trim_end(_)
trim_end(s) ==
    IF s # <<>> /\ IsWhitespace(s[Len(s)])
    THEN trim_end(SubSeq(s, 1, Len(s) - 1)) ELSE s

(* str::trim *)
trim(s) == trim_end(trim_start(s))

(* The leading run of non-whitespace characters of s. *)
RECURSIVE TakeToken(_)
TakeToken(s) ==
    IF s = <<>> \/ IsWhitespace(Head(s)) THEN <<>>
    ELSE <<Head(s)>> \o TakeToken(Tail(s))

(* s.split_whitespace().next(): Option of the first whitespace-delimited token. *)
split_whitespace_next(s) ==
    LET t == trim_start(s) IN IF t = <<>> THEN <<>> ELSE <<TakeToken(t)>>

(* .chars().filter(|c| c.is_alphanumeric()).collect::<String>() *)
RECURSIVE filter_alphanumeric(_)
filter_alphanumeric(s) ==
    IF s = <<>> THEN <<>>
    ELSE (IF IsAlphanumeric(Head(s)) THEN <<Head(s)>> ELSE <<>>)
         \o filter_alphanumeric(Tail(s))

(* Vec<String>::join(sep) *)
RECURSIVE join(_, _)
join(names, sep) ==
    IF names = <<>> THEN <<>>
    ELSE IF Len(names) = 1 THEN names[1]
    ELSE names[1] \o sep \o join(Tail(names), sep)

(* Option::unwrap_or_default / unwrap_or for strings *)
unwrap_or(opt, default) == IF opt = <<>> THEN default ELSE opt[1]

(* Option::or_else *)
or_else(opt, other) == IF opt = <<>> THEN other ELSE opt

-----------------------------------------------------------------------------
(* generate_citation_key *)

Unknown == <<"U", "n", "k", "n", "o", "w", "n">>
ND == <<"N", "D">>
NoTitle == <<"N", "o", "T", "i", "t", "l", "e">>

(* generate_citation_key with the year filtered like the other two parts. *)
generate_citation_key_year_filtered(a, y, t) ==
    LET author_part == unwrap_or(split_whitespace_next(a), Unknown)
        year_part == IF y # <<>> THEN y ELSE ND
        title_part == unwrap_or(split_whitespace_next(t), NoTitle)
    IN  filter_alphanumeric(author_part) \o filter_alphanumeric(year_part)
            \o filter_alphanumeric(title_part)

generate_citation_key(a, y, t) ==
    LET author_part == unwrap_or(split_whitespace_next(a), Unknown)
        year_part == IF y # <<>> THEN y ELSE ND
        title_part == unwrap_or(split_whitespace_next(t), NoTitle)
    IN  filter_alphanumeric(author_part) \o year_part
            \o filter_alphanumeric(title_part)

-----------------------------------------------------------------------------
(* The inputs of a call. *)

(* A URL is a sequence of lexical pieces; a piece is never split by the     *)
(* patterns applied to it.                                                  *)
Urls ==
    { <<"https://", "doi.org", "/", "10.1000/xyz">>,
      <<"doi.org", "/", "10.1000/xyz">>,
      <<"http://", "dx.", "doi.org", "/", "10.1000/xyz">>,
      <<"dx.", "doi.org", "/", "10.1000/xyz">>,
      <<"https://", "doi.org", "/">>,
      <<"https://", "example.com", "/", "post">>,
      <<"example.com", "/", "post">>,
      <<"https://", "example.com", "/", "doi.org", "/", "10.1000/xyz">>,
      <<"http://", "example.com">> }

Schemes == {"http://", "https://"}

(* HTTP status codes a server answers with. *)
Statuses == {200, 204, 404, 500}

(* StatusCode::is_success *)
is_success(status) == 200 <= status /\ status <= 299

BodyChars == {"@", " ", "x"}
Bodies == Strs(BodyChars, MaxBodyLen)

DateChars == {"2", "é"}
MetaChars == {"a", " "}

(* The JSON text of a script element, as serde_json sees it: not a JSON     *)
(* object at all ("garbage"), or an object with the four fields SchemaArticle *)
(* reads.  author.shape is "absent" (no such key), "array" (an array of     *)
(* objects with a string name) or "other" (any other JSON value).           *)
JsonTypes == {"Article", "NewsArticle", "BlogPosting", "WebPage"}
Headlines == {<<>>, <<"H">>}
AuthorFields ==
    { [shape |-> "absent", names |-> <<>>],
      [shape |-> "other", names |-> <<>>],
      [shape |-> "array", names |-> <<>>],
      [shape |-> "array", names |-> << <<"J">> >>],
      [shape |-> "array", names |-> << <<"J", " ", "D">>, <<"K">> >>] }

Option(S) == {<<>>} \cup {<<x>> : x \in S}

NoElement ==
    [kind |-> "none", type |-> <<>>, headline |-> <<>>,
     author |-> [shape |-> "absent", names |-> <<>>], datePublished |-> <<>>]

Blocks ==
    { [NoElement EXCEPT !.kind = "garbage"] } \cup
    [kind : {"object"}, type : Option(JsonTypes), headline : Option(Headlines),
     author : AuthorFields, datePublished : Option(Strs(DateChars, MaxDateLen))]

(* The first element a selector matches: none, or an element with the       *)
(* attribute (or inner HTML) asked for present or not.                      *)
NoMatch == [found |-> FALSE, value |-> <<>>]
Elements(S) == {NoMatch} \cup [found : {TRUE}, value : Option(S)]
TextElements(S) == {NoMatch} \cup [found : {TRUE}, value : {<<x>> : x \in S}]

NoTags == <<>>
NoRes == [status |-> 0, body |-> <<>>]
Pending == [kind |-> "Pending", text |-> <<>>]

(* The local dates chrono::Local::now() gives at the two places it is read. *)
DayPairs == { <<"2026-11-01", "2026-11-01">>, <<"2026-11-01", "2026-11-02">> }

-----------------------------------------------------------------------------
(* DOI_RE = ^(?:https?://)?(?:dx\.)?doi\.org/(.+) : Option of capture 1. *)
DOI_RE_captures(u) ==
    LET i1 == IF Len(u) >= 1 /\ u[1] \in Schemes THEN 2 ELSE 1
        i2 == IF Len(u) >= i1 /\ u[i1] = "dx." THEN i1 + 1 ELSE i1
    IN  IF Len(u) >= i2 + 2 /\ u[i2] = "doi.org" /\ u[i2 + 1] = "/"
        THEN <<SubSeq(u, i2 + 2, Len(u))>>
        ELSE <<>>

(* The Accept header of the DOI request, lines 218-222. *)
bibtex_accept == "application/x-bibtex; charset=utf-8"

(* format!("https://doi.org/{}", doi) *)
doi_url(doi) == <<"https://", "doi.org", "/">> \o doi

(* Url::parse succeeds: an absolute URL with a host.  reqwest's get() parses *)
(* its argument the same way, and send() fails when that parse failed.       *)
Url_parse_ok(u) == Len(u) >= 2 /\ u[1] \in Schemes

(* Url::host_str *)
RECURSIVE UpToSlash(_)
UpToSlash(s) ==
    IF s = <<>> \/ Head(s) = "/" THEN <<>> ELSE <<Head(s)>> \o UpToSlash(Tail(s))

host_str(u) == UpToSlash(Tail(u))

(* The test of line 233 on the registry's body. *)
is_bibtex_body(text) ==
    trim(text) # <<>> /\ text # <<>> /\ Head(text) = "@"

-----------------------------------------------------------------------------
(* extract_from_schema: the body of its loop, for one script element. *)

(* serde_json::from_str::<SchemaArticle> succeeds: @type is required,       *)
(* author defaults when the key is absent and must otherwise be an array of *)
(* objects with a name.                                                     *)
from_str_ok(b) ==
    /\ b.kind = "object"
    /\ b.type # <<>>
    /\ b.author.shape \in {"absent", "array"}

(* The test of lines 335-337. *)
is_article_type(type_of) == type_of \in {"Article", "NewsArticle", "BlogPosting"}

(* s[..4] panics unless byte 4 is a char boundary of s. *)
slice_panics(s) == ~is_char_boundary(s, YearLen)

(* Option<String>.map(|s| s[..4].to_string()).unwrap_or_default(): whether  *)
(* it panics, and its value when it does not.                               *)
year_of(date) ==
    IF date = <<>> THEN [panic |-> FALSE, value |-> <<>>]
    ELSE IF slice_panics(date[1]) THEN [panic |-> TRUE, value |-> <<>>]
    ELSE [panic |-> FALSE, value |-> SliceTo(date[1], YearLen)]

(* One iteration: "skip" (next element), "panic", or "return" with the triple. *)
schema_block(b) ==
    LET t == unwrap_or(b.headline, <<>>)
        authors == join(b.author.names, <<" ", "a", "n", "d", " ">>)
        y == year_of(b.datePublished)
        none == [title |-> <<>>, author |-> <<>>, year |-> <<>>]
    IN  IF ~from_str_ok(b) \/ ~is_article_type(b.type[1])
        THEN [step |-> "skip", value |-> none]
        ELSE IF y.panic THEN [step |-> "panic", value |-> none]
        ELSE IF t # <<>>
        THEN [step |-> "return",
              value |-> [title |-> t, author |-> authors, year |-> y.value]]
        ELSE [step |-> "skip", value |-> none]

(* The whole loop over the script elements, in document order: "none" when  *)
(* no element returns.                                                      *)
RECURSIVE extract_from_schema(_)
extract_from_schema(blocks) ==
    IF blocks = <<>>
    THEN [step |-> "none",
          value |-> [title |-> <<>>, author |-> <<>>, year |-> <<>>]]
    ELSE LET r == schema_block(Head(blocks))
         IN  IF r.step = "skip" THEN extract_from_schema(Tail(blocks)) ELSE r

-----------------------------------------------------------------------------
(* select_text and the meta-tag strategy of extract_metadata. *)

og_title == "meta[property='og:title']"
title_el == "title"
meta_author == "meta[name='author']"
article_author == "meta[property='article:author']"
published_time == "meta[property='article:published_time']"

(* document maps a selector to the first element it matches. *)
select_text(document, selector_str, attr) ==
    LET el == document[selector_str]
    IN  IF ~el.found THEN <<>>
        ELSE IF attr = "text" THEN <<trim(el.value[1])>>
        ELSE IF el.value = <<>> THEN <<>>
        ELSE <<trim(el.value[1])>>

(* lines 309-311 *)
meta_title(document) ==
    unwrap_or(or_else(select_text(document, og_title, "content"),
                      select_text(document, title_el, "text")), <<>>)

(* lines 313-315 *)
meta_author_of(document) ==
    unwrap_or(or_else(select_text(document, meta_author, "content"),
                      select_text(document, article_author, "content")), <<>>)

(* lines 317-323 *)
meta_year(document) ==
    year_of(select_text(document, published_time, "content"))

-----------------------------------------------------------------------------
(* The BibTeX record of lines 275-295. *)
bibtex_record(key, t, a, y, url, site_name, days) ==
    <<"@misc{">> \o key \o <<",\n">>
    \o <<"  title = {">> \o t \o <<"},\n">>
    \o (IF a # <<>> THEN <<"  author = {">> \o a \o <<"},\n">> ELSE <<>>)
    \o <<"  howpublished = {\\url{">> \o url \o <<"}},\n">>
    \o <<"  note = {Accessed: ", days[1], "},\n">>
    \o (IF y # <<>> THEN <<"  year = {">> \o y \o <<"},\n">> ELSE <<>>)
    \o <<"  urldate = {", days[2], "},\n">>
    \o <<"  publisher = {">> \o site_name \o <<"},\n">>
    \o <<"}">>

-----------------------------------------------------------------------------
(* fetch_and_generate_bibtex, one action per step between two awaits or     *)
(* calls.                                                                   *)

Init ==
    /\ pc = "start"
    /\ url_str \in Urls
    /\ sent = <<>>
    /\ res = NoRes
    /\ calls = <<>>
    /\ scripts = <<>>
    /\ scanned = 0
    /\ element = NoElement
    /\ tags = NoTags
    /\ schema = <<>>
    /\ title = <<>>
    /\ author = <<>>
    /\ year = <<>>
    /\ citation_key = <<>>
    /\ outcome = Pending

Finish(kind, text) ==
    /\ pc' = "done"
    /\ outcome' = [kind |-> kind, text |-> text]

(* lines 215-227: the DOI pattern, and the request to the registry. *)
DoiCheck ==
    /\ pc = "start"
    /\ LET caps == DOI_RE_captures(url_str)
       IN  IF caps # <<>>
           THEN /\ sent' = Append(sent, [url |-> doi_url(caps[1]),
                                         accept |-> bibtex_accept])
                /\ pc' = "doi_send"
           ELSE /\ sent' = sent
                /\ pc' = "scrape"
    /\ UNCHANGED <<url_str, res, calls, scripts, scanned, element, tags, schema,
                   title, author, year, citation_key, outcome>>

(* lines 228-231: send().await of the DOI request, and the status test. *)
DoiSend ==
    /\ pc = "doi_send"
    /\ \E ok \in BOOLEAN, status \in Statuses :
         IF ~ok
         THEN /\ Finish("RequestError", <<"send">>)
              /\ res' = res
         ELSE IF is_success(status)
         THEN /\ pc' = "doi_text"
              /\ res' = [status |-> status, body |-> <<>>]
              /\ outcome' = outcome
         ELSE /\ pc' = "scrape"
              /\ res' = [status |-> status, body |-> <<>>]
              /\ outcome' = outcome
    /\ UNCHANGED <<url_str, sent, calls, scripts, scanned, element, tags, schema,
                   title, author, year, citation_key>>

(* lines 232-237: text().await of the DOI response, and the body test. *)
DoiText ==
    /\ pc = "doi_text"
    /\ \E ok \in BOOLEAN, text \in Bodies :
         IF ~ok
         THEN /\ Finish("RequestError", <<"text">>)
              /\ res' = res
         ELSE IF is_bibtex_body(text)
         THEN /\ Finish("Ok", text)
              /\ res' = [res EXCEPT !.body = text]
         ELSE /\ pc' = "scrape"
              /\ res' = [res EXCEPT !.body = text]
              /\ outcome' = outcome
    /\ UNCHANGED <<url_str, sent, calls, scripts, scanned, element, tags, schema,
                   title, author, year, citation_key>>

(* lines 243-244: the GET of the page itself; the DOI response is out of    *)
(* scope.                                                                   *)
PageRequest ==
    /\ pc = "scrape"
    /\ sent' = Append(sent, [url |-> url_str, accept |-> ""])
    /\ res' = NoRes
    /\ pc' = "page_send"
    /\ UNCHANGED <<url_str, calls, scripts, scanned, element, tags, schema,
                   title, author, year, citation_key, outcome>>

(* lines 245-254: send().await of the page request, and the status test.    *)
(* The request of a URL that does not parse fails in send().                *)
PageSend ==
    /\ pc = "page_send"
    /\ \E ok \in BOOLEAN, status \in Statuses :
         IF ~ok \/ ~Url_parse_ok(url_str)
         THEN /\ Finish("RequestError", <<"send">>)
              /\ res' = res
         ELSE IF ~is_success(status)
         THEN /\ Finish("ExtractionError", <<"URL returned status">>)
              /\ res' = [status |-> status, body |-> <<>>]
         ELSE /\ pc' = "page_text"
              /\ res' = [status |-> status, body |-> <<>>]
              /\ outcome' = outcome
    /\ UNCHANGED <<url_str, sent, calls, scripts, scanned, element, tags, schema,
                   title, author, year, citation_key>>

(* lines 256-264: text().await, parse_document, Url::parse, and the call of *)
(* extract_metadata, which enters extract_from_schema first.                *)
PageText ==
    /\ pc = "page_text"
    /\ \E ok \in BOOLEAN :
         IF ~ok
         THEN /\ Finish("RequestError", <<"text">>)
              /\ calls' = calls
         ELSE IF ~Url_parse_ok(url_str)
         THEN /\ Finish("UrlParseError", <<"parse">>)
              /\ calls' = calls
         ELSE /\ pc' = "schema_scan"
              /\ calls' = Append(calls, "extract_from_schema")
              /\ outcome' = outcome
    /\ UNCHANGED <<url_str, sent, res, scripts, scanned, element, tags, schema,
                   title, author, year, citation_key>>

(* lines 332-356: one iteration of extract_from_schema's loop over the      *)
(* script elements, in document order.  The element of an iteration that    *)
(* ends without a result is dropped as the loop moves on.                   *)
SchemaScan ==
    /\ pc = "schema_scan"
    /\ scanned < MaxBlocks
    /\ \E b \in Blocks :
         LET r == schema_block(b)
         IN  /\ scanned' = scanned + 1
             /\ IF r.step = "panic"
                THEN /\ Finish("Panic", <<"byte index 4">>)
                     /\ element' = b
                     /\ schema' = schema
                ELSE IF r.step = "return"
                THEN /\ pc' = "schema_returned"
                     /\ element' = b
                     /\ schema' = <<r.value>>
                     /\ outcome' = outcome
                ELSE /\ pc' = "schema_scan"
                     /\ element' = NoElement
                     /\ schema' = schema
                     /\ outcome' = outcome
    /\ UNCHANGED <<url_str, sent, res, calls, scripts, tags, title, author,
                   year, citation_key>>

(* line 357: no script element is left, extract_from_schema returns None. *)
SchemaEnd ==
    /\ pc = "schema_scan"
    /\ pc' = "schema_returned"
    /\ schema' = <<>>
    /\ element' = NoElement
    /\ UNCHANGED <<url_str, sent, res, calls, scripts, scanned, tags, title,
                   author, year, citation_key, outcome>>

(* extract_metadata with the early return of line 305 lost. *)
schema_found_no_return(s) == FALSE

(* line 303: if let Some(..) = extract_from_schema(document) *)
schema_found(s) == s # <<>>

(* lines 303-308: extract_metadata returns the schema triple, or goes on to *)
(* the meta tags.                                                           *)
ExtractMetadata ==
    /\ pc = "schema_returned"
    /\ IF schema_found(schema)
       THEN /\ title' = schema[1].title
            /\ author' = schema[1].author
            /\ year' = schema[1].year
            /\ calls' = calls
            /\ pc' = "assemble"
       ELSE /\ calls' = Append(calls, "meta_tags")
            /\ pc' = "meta_title"
            /\ UNCHANGED <<title, author, year>>
    /\ element' = NoElement
    /\ scanned' = 0
    /\ UNCHANGED <<url_str, sent, res, scripts, tags, schema, citation_key,
                   outcome>>

(* lines 309-311 *)
MetaTitle ==
    /\ pc = "meta_title"
    /\ \E og \in Elements(Strs(MetaChars, MaxMetaLen)),
          ti \in TextElements(Strs(MetaChars, MaxMetaLen)) :
         LET document == (og_title :> og) @@ (title_el :> ti)
         IN  /\ tags' = document
             /\ title' = meta_title(document)
    /\ pc' = "meta_author"
    /\ UNCHANGED <<url_str, sent, res, calls, scripts, scanned, element, schema,
                   author, year, citation_key, outcome>>

(* lines 313-315 *)
MetaAuthor ==
    /\ pc = "meta_author"
    /\ \E ma \in Elements(Strs(MetaChars, MaxMetaLen)),
          aa \in Elements(Strs(MetaChars, MaxMetaLen)) :
         LET document == (meta_author :> ma) @@ (article_author :> aa)
         IN  /\ tags' = document
             /\ author' = meta_author_of(document)
    /\ pc' = "meta_year"
    /\ UNCHANGED <<url_str, sent, res, calls, scripts, scanned, element, schema,
                   title, year, citation_key, outcome>>

(* lines 317-326 *)
MetaYear ==
    /\ pc = "meta_year"
    /\ \E pt \in Elements(Strs(DateChars, MaxDateLen)) :
         LET document == (published_time :> pt)
             y == meta_year(document)
         IN  /\ tags' = document
             /\ IF y.panic
                THEN /\ Finish("Panic", <<"byte index 4">>)
                     /\ year' = year
                ELSE /\ pc' = "assemble"
                     /\ year' = y.value
                     /\ outcome' = outcome
    /\ UNCHANGED <<url_str, sent, res, calls, scripts, scanned, element, schema,
                   title, author, citation_key>>

(* lines 266-297: the title test, the citation key and the record. *)
Assemble ==
    /\ pc = "assemble"
    /\ IF title = <<>>
       THEN /\ Finish("ExtractionError", <<"Could not find a title">>)
            /\ citation_key' = citation_key
       ELSE \E days \in DayPairs :
              LET key == generate_citation_key(author, year, title)
              IN  /\ citation_key' = key
                  /\ Finish("Ok", bibtex_record(key, title, author, year,
                                                url_str, host_str(url_str), days))
    /\ UNCHANGED <<url_str, sent, res, calls, scripts, scanned, element, tags, schema,
                   title, author, year>>

Next ==
    \/ DoiCheck
    \/ DoiSend
    \/ DoiText
    \/ PageRequest
    \/ PageSend
    \/ PageText
    \/ SchemaScan
    \/ SchemaEnd
    \/ ExtractMetadata
    \/ MetaTitle
    \/ MetaAuthor
    \/ MetaYear
    \/ Assemble

Spec == Init /\ [][Next]_vars

-----------------------------------------------------------------------------
(* generate_citation_key on its own, called with any three strings. *)

KeyAuthorChars == {"a", "b", " ", "-"}
KeyTitleChars == {"t", " ", "-"}
KeyYears == {<<>>, <<"2", "0", "2", "4">>, <<"2", "-", " ", "é">>}

KeyInit ==
    /\ pc = "key_call"
    /\ author \in Strs(KeyAuthorChars, MaxAuthorLen)
    /\ year \in KeyYears
    /\ title \in Strs(KeyTitleChars, MaxTitleLen)
    /\ url_str = <<>>
    /\ sent = <<>>
    /\ res = NoRes
    /\ calls = <<>>
    /\ scripts = <<>>
    /\ scanned = 0
    /\ element = NoElement
    /\ tags = NoTags
    /\ schema = <<>>
    /\ citation_key = <<>>
    /\ outcome = Pending

KeyCall ==
    /\ pc = "key_call"
    /\ citation_key' = generate_citation_key(author, year, title)
    /\ pc' = "key_done"
    /\ UNCHANGED <<url_str, sent, res, calls, scripts, scanned, element, tags, schema,
                   title, author, year, outcome>>

KeyNext == KeyCall

KeySpec == KeyInit /\ [][KeyNext]_vars

-----------------------------------------------------------------------------
(* extract_from_schema on its own, called on a document with any script     *)
(* elements.                                                                *)

SchemaDates == {<<"2">>, <<"2", "0", "2", "4">>}

SchemaBlocks ==
    { [NoElement EXCEPT !.kind = "garbage"] } \cup
    [kind : {"object"}, type : Option(JsonTypes), headline : Option(Headlines),
     author : AuthorFields, datePublished : Option(SchemaDates)]

SchemaInit ==
    /\ pc = "schema_call"
    /\ scripts \in UNION {[1..k -> SchemaBlocks] : k \in 0..MaxBlocks}
    /\ url_str = <<>>
    /\ sent = <<>>
    /\ res = NoRes
    /\ calls = <<>>
    /\ scanned = 0
    /\ element = NoElement
    /\ tags = NoTags
    /\ schema = <<>>
    /\ title = <<>>
    /\ author = <<>>
    /\ year = <<>>
    /\ citation_key = <<>>
    /\ outcome = Pending

SchemaCall ==
    /\ pc = "schema_call"
    /\ LET r == extract_from_schema(scripts)
       IN  IF r.step = "panic"
           THEN /\ Finish("Panic", <<"byte index 4">>)
                /\ schema' = schema
           ELSE /\ pc' = "schema_returned"
                /\ schema' = IF r.step = "return" THEN <<r.value>> ELSE <<>>
                /\ outcome' = outcome
    /\ UNCHANGED <<url_str, sent, res, calls, scripts, scanned, element, tags,
                   title, author, year, citation_key>>

SchemaNext == SchemaCall

SchemaSpec == SchemaInit /\ [][SchemaNext]_vars

-----------------------------------------------------------------------------
(* The claims. *)

Range(f) == {f[i] : i \in DOMAIN f}

(* The first character of text that is not whitespace is c. *)
FirstNonWhitespaceIs(text, c) ==
    \E i \in 1..Len(text) :
        /\ text[i] = c
        /\ \A j \in 1..(i - 1) : IsWhitespace(text[j])

PageRequested == \E i \in 1..Len(sent) : sent[i] = [url |-> url_str, accept |-> ""]

(* C1: when the URL matches the DOI pattern and the registry answers with a *)
(* success status and a body whose first non-whitespace character is '@',   *)
(* the call returns that body and nothing else runs: no page request, no    *)
(* extraction, no key.                                                      *)
C1_DoiBodyReturnedVerbatim ==
    ( /\ DOI_RE_captures(url_str) # <<>>
      /\ pc \in {"scrape", "done"}
      /\ Len(sent) = 1
      /\ is_success(res.status)
      /\ FirstNonWhitespaceIs(res.body, "@") )
    => ( /\ pc = "done"
         /\ outcome = [kind |-> "Ok", text |-> res.body]
         /\ calls = <<>>
         /\ citation_key = <<>> )

(* C2: no failure of the DOI stage ends the call: a call that ends with a   *)
(* transport error has issued the GET of the page itself.                   *)
C2_DoiFailureAbsorbed ==
    (pc = "done" /\ outcome.kind = "RequestError") => PageRequested

(* C3: the meta-tag strategy is entered only after extract_from_schema, and *)
(* only when it returned None; once it returned an article the meta tags    *)
(* are never looked at.                                                     *)
C3_SchemaBeforeMeta ==
    /\ ("meta_tags" \in Range(calls) \/ tags # NoTags \/
        pc \in {"meta_title", "meta_author", "meta_year"})
       => (calls = <<"extract_from_schema", "meta_tags">> /\ schema = <<>>)
    /\ schema # <<>> => (calls = <<"extract_from_schema">> /\ tags = NoTags)

(* A page without an accepted article came through the meta tags to a key. *)
C3_Witness ==
    /\ pc = "done"
    /\ outcome.kind = "Ok"
    /\ calls = <<"extract_from_schema", "meta_tags">>
    /\ schema = <<>>
    /\ title = <<"a">>

(* C4: for an author "Given Surname" the key starts with the surname,       *)
(* followed by the year.                                                    *)
C4_KeyStartsWithSurname ==
    pc = "key_done" =>
        \A given, surname \in {<<"a">>, <<"b">>} :
            author = given \o <<" ">> \o surname =>
                /\ Len(citation_key) >= Len(surname) + Len(ND)
                /\ SubSeq(citation_key, 1, Len(surname)) = surname
                /\ SubSeq(citation_key, Len(surname) + 1,
                          Len(surname) + Len(IF year = <<>> THEN ND ELSE year))
                       = (IF year = <<>> THEN ND ELSE year)

(* The first whitespace-delimited token of s, for a string that has one. *)
HasToken(s) == \E i \in 1..Len(s) : ~IsWhitespace(s[i])

FirstToken(s) ==
    LET i == CHOOSE i \in 1..Len(s) :
                 ~IsWhitespace(s[i]) /\ \A j \in 1..(i - 1) : IsWhitespace(s[j])
        j == CHOOSE j \in i..Len(s) :
                 /\ \A k \in i..j : ~IsWhitespace(s[k])
                 /\ (j = Len(s) \/ IsWhitespace(s[j + 1]))
    IN  SubSeq(s, i, j)

KeyPart(s, default) ==
    SelectSeq(IF s = <<>> THEN default ELSE FirstToken(s), IsAlphanumeric)

(* C5: the key is never empty, and it is the filtered first token of the    *)
(* author (Unknown for an empty author), then the year as it is (ND for an  *)
(* empty year), then the filtered first token of the title (NoTitle for an  *)
(* empty title).                                                            *)
C5_KeyIsConcatenation ==
    pc = "key_done" =>
        /\ citation_key # <<>>
        /\ ((author = <<>> \/ HasToken(author)) /\ (title = <<>> \/ HasToken(title)))
           => citation_key = KeyPart(author, Unknown)
                                \o (IF year = <<>> THEN ND ELSE year)
                                \o KeyPart(title, NoTitle)

(* A key whose author token loses a character, whose year keeps its         *)
(* punctuation and whose title is empty.                                    *)
C5_Witness ==
    /\ pc = "key_done"
    /\ author = <<"-", "a", " ">>
    /\ year = <<"2", "-", " ", "é">>
    /\ title = <<>>
    /\ citation_key = <<"a", "2", "-", " ", "é">> \o NoTitle

YearIsFirstFour(date, y) ==
    y = <<>> \/ (Len(y) = YearLen /\ y = SubSeq(date, 1, YearLen))

(* C6: the year either extractor hands on is empty or exactly the first 4   *)
(* characters of the date string it found.                                  *)
C6_YearIsFirstFourChars ==
    /\ (pc = "schema_returned" /\ schema # <<>> /\ element.datePublished # <<>>)
       => YearIsFirstFour(element.datePublished[1], schema[1].year)
    /\ (pc = "assemble" /\ DOMAIN tags = {published_time}
            /\ tags[published_time].value # <<>>)
       => YearIsFirstFour(trim(tags[published_time].value[1]), year)

(* C7: a call ends with a record or with one of the three errors. *)
C7_FourOutcomes ==
    outcome.kind \in {"Pending", "Ok", "RequestError", "UrlParseError",
                      "ExtractionError"}

(* The element has the attribute or text, and it is not blank. *)
Supplies(el) == el.found /\ el.value # <<>> /\ trim(el.value[1]) # <<>>

(* C8: the title is the first value its chain supplies: og:title, else the  *)
(* <title> text, else empty.                                                *)
C8_TitleFallbackChain ==
    (pc = "meta_author" /\ DOMAIN tags = {og_title, title_el}) =>
        title = (IF Supplies(tags[og_title]) THEN trim(tags[og_title].value[1])
                 ELSE IF Supplies(tags[title_el])
                 THEN trim(tags[title_el].value[1])
                 ELSE <<>>)

(* A block is accepted: it decodes, its type is one of the three, its       *)
(* headline is not empty.                                                   *)
Accepted(b) ==
    /\ from_str_ok(b)
    /\ b.type[1] \in {"Article", "NewsArticle", "BlogPosting"}
    /\ b.headline # <<>>
    /\ b.headline[1] # <<>>

(* C9: the scan returns the first accepted block's title and authors, and   *)
(* None when no block is accepted.                                          *)
C9_FirstAcceptedBlock ==
    pc # "schema_call" /\ DOMAIN scripts # {} =>
        LET hits == {i \in DOMAIN scripts : Accepted(scripts[i])}
        IN  /\ pc = "schema_returned"
            /\ hits = {} => schema = <<>>
            /\ hits # {} =>
                 LET i == CHOOSE i \in hits : \A j \in hits : i <= j
                 IN  /\ schema # <<>>
                     /\ schema[1].title = scripts[i].headline[1]
                     /\ schema[1].author =
                            join(scripts[i].author.names, <<" ", "a", "n", "d", " ">>)

(* C10: a block of an accepted type with a headline, no date, and an author *)
(* that is absent or not an array of {name} is accepted with author "".     *)
C10_MalformedAuthorDefaults ==
    ( /\ pc # "schema_call"
      /\ Len(scripts) = 1
      /\ scripts[1].kind = "object"
      /\ scripts[1].type # <<>>
      /\ scripts[1].type[1] \in {"Article", "NewsArticle", "BlogPosting"}
      /\ scripts[1].headline = << <<"H">> >>
      /\ scripts[1].author.shape \in {"absent", "other"}
      /\ scripts[1].datePublished = <<>> )
    => schema = << [title |-> <<"H">>, author |-> <<>>, year |-> <<>>] >>

====
